---- MODULE Spec2Model ----
(***************************************************************************)
(* Model of cmk/base/agent_based/data_provider.py: the per-host-key        *)
(* SectionsParser / ParsedSectionsResolver pairs, the ParsedSectionsBroker *)
(* and the piggyback publisher, for one processing pass.                   *)
(***************************************************************************)
EXTENDS Integers, Sequences, FiniteSets, TLC

(***************************************************************************)
(* Bounds of the model.                                                    *)
(***************************************************************************)
\* cap on the invocations of one parse function by one parser (only debug
\* mode can invoke a parse function more than once)
MaxCalls == 2
\* cap on the calls of store_piggybacked_sections in one pass
MaxPublish == 1
\* cap on the parse and disable calls that callers other than resolve make in a pass
MaxDirect == 1
\* cap on the (source, outcome) pairs handed to filter_out_errors
MaxSources == 3
\* cap on the cache infos handed to get_cache_info
MaxInfos == 3

(***************************************************************************)
(* Values.                                                                 *)
(***************************************************************************)
\* a key that is not in a dict
Unset == [unset |-> TRUE]
\* Python's None
None == [none |-> TRUE]

Range(seq) == {seq[i] : i \in 1..Len(seq)}

\* all the orders in which the elements of S can be listed
Orders(S) ==
    {q \in [1..Cardinality(S) -> S] : \A i, j \in 1..Cardinality(S) : q[i] = q[j] => i = j}

\* the elements of S, a subset of the elements of the sequence all, in all's order
RECURSIVE Filter(_, _)
Filter(all, S) ==
    IF all = <<>> THEN <<>>
    ELSE (IF Head(all) \in S THEN <<Head(all)>> ELSE <<>>) \o Filter(Tail(all), S)

(***************************************************************************)
(* The registered section plugins: raw section name, parsed section name   *)
(* and the raw sections the plugin supersedes.  Registration has validated *)
(* the supersedes: none is indirect (z supersedes y, y supersedes x, so z  *)
(* names x too).                                                           *)
(***************************************************************************)
Sections == {"x", "y", "z", "g"}
ParsedNames == {"P", "Q", "G"}
RegistrationOrder == <<"x", "y", "z", "g">>

section_plugins ==
    [s \in Sections |->
        CASE s = "x" -> [name |-> "x", parsed_section_name |-> "P", supersedes |-> {}]
          [] s = "y" -> [name |-> "y", parsed_section_name |-> "Q", supersedes |-> {"x"}]
          [] s = "z" -> [name |-> "z", parsed_section_name |-> "P", supersedes |-> {"x", "y"}]
          [] s = "g" -> [name |-> "g", parsed_section_name |-> "G", supersedes |-> {}]]

\* HostKey(hostname, source_type)
HostA == <<"h1", "HOST">>
HostB == <<"h2", "HOST">>
HostM == <<"h1", "MANAGEMENT">>

\* The raw rows of a section are modelled by what they make its parse function
\* do: "ok" return a value, "nil" return None, "bad" raise.

VARIABLES
    debug,          \* cmk.utils.debug.enabled()
    phase,          \* "collected": the host sections exist; "provided": the pairs exist
    keys,           \* the host keys of the pass, in the order of the mapping
    wanted,         \* the parsed section names callers ask the resolvers for
    desired,        \* the lists of parsed section names callers ask the broker for
    host_sections,  \* HostKey -> HostSections
    plugins,        \* HostKey -> ParsedSectionsResolver.section_plugins (names, in order)
    resolver,       \* HostKey -> ParsedSectionsResolver._memoized_results
    parser,         \* HostKey -> SectionsParser state
    vetoed,         \* HostKey -> whether a caller (not resolve) has called parser.disable
    direct,         \* the number of parse and disable calls of such callers in the pass
    broker,         \* what ParsedSectionsBroker.resolve returned, if it was the last call
    stored,         \* the calls of store_piggyback_raw_data, one batch per publish
    call,           \* a call of a function that needs no pair: its name and arguments
    returned        \* what that call returned, once it has

vars == <<debug, phase, keys, wanted, desired, host_sections, plugins, resolver, parser, vetoed, direct, broker, stored, call, returned>>

(***************************************************************************)
(* HostSections: sections (raw section name -> rows), the order of its     *)
(* keys, cache_info and piggybacked_raw_data.                              *)
(***************************************************************************)
CacheInfoOf(s) ==
    CASE s = "x" -> [ats |-> 100, interval |-> 60]
      [] s = "z" -> [ats |-> 80, interval |-> 90]
      [] OTHER -> None

HostSections(order, rows, piggy) ==
    [order |-> order,
     sections |-> rows,
     cache_info |-> [s \in {t \in DOMAIN rows : CacheInfoOf(t) # None} |-> CacheInfoOf(s)],
     piggybacked_raw_data |-> piggy]

\* every HostSections whose raw sections are some of S, in any order, with the
\* given row kinds and piggyback payloads
HostSectionsOver(S, kinds, piggies) ==
    UNION {{HostSections(o, r, p) : o \in Orders(T), r \in [T -> kinds], p \in piggies}
           : T \in SUBSET S}

\* host_sections.cache_info.get(section_name)
CacheInfoGet(hs, s) == IF s \in DOMAIN hs.cache_info THEN hs.cache_info[s] ELSE None

(***************************************************************************)
(* SectionsParser                                                          *)
(***************************************************************************)
\* SectionsParser.__init__; calls counts the invocations of each parse function
SectionsParser ==
    [memoized_results |-> [s \in Sections |-> Unset],
     parsing_errors |-> <<>>,
     calls |-> [s \in Sections |-> 0]]

\* parse_function(list(raw_data)) of the plugin of section s on the rows of host key k
parse_function(k, s, rows) ==
    CASE rows = "ok" -> [raised |-> FALSE, value |-> [rows_of |-> s, host_key |-> k]]
      [] rows = "nil" -> [raised |-> FALSE, value |-> None]
      [] OTHER -> [raised |-> TRUE, value |-> None]

\* _parse_raw_data re-raising the fault of a parse function whatever the debug mode
parse_raw_data_reraise(dbg, k, hs, st, s) ==
    IF s \notin DOMAIN hs.sections
    THEN [st |-> st, ret |-> None, raised |-> FALSE]
    ELSE LET called == [st EXCEPT !.calls[s] = @ + 1]
             out == parse_function(k, s, hs.sections[s])
         IN  IF ~out.raised
             THEN [st |-> called, ret |-> out.value, raised |-> FALSE]
             ELSE [st |-> called, ret |-> None, raised |-> TRUE]

\* _parse_raw_data letting the KeyError of a missing raw section out
parse_raw_data_keyerror(dbg, k, hs, st, s) ==
    IF s \notin DOMAIN hs.sections
    THEN [st |-> st, ret |-> None, raised |-> TRUE]
    ELSE LET called == [st EXCEPT !.calls[s] = @ + 1]
             out == parse_function(k, s, hs.sections[s])
         IN  IF ~out.raised
             THEN [st |-> called, ret |-> out.value, raised |-> FALSE]
             ELSE IF dbg
             THEN [st |-> called, ret |-> None, raised |-> TRUE]
             ELSE [st |-> [called EXCEPT !.parsing_errors = Append(@, s)],
                   ret |-> None, raised |-> FALSE]

\* _parse_raw_data recording the parsing error before it re-raises in debug mode
parse_raw_data_logged(dbg, k, hs, st, s) ==
    IF s \notin DOMAIN hs.sections
    THEN [st |-> st, ret |-> None, raised |-> FALSE]
    ELSE LET called == [st EXCEPT !.calls[s] = @ + 1]
             out == parse_function(k, s, hs.sections[s])
         IN  IF ~out.raised
             THEN [st |-> called, ret |-> out.value, raised |-> FALSE]
             ELSE [st |-> [called EXCEPT !.parsing_errors = Append(@, s)],
                   ret |-> None, raised |-> dbg]

\* _parse_raw_data returning the raw data of a section whose parse function
\* raised, after recording the error
parse_raw_data_rows(dbg, k, hs, st, s) ==
    IF s \notin DOMAIN hs.sections
    THEN [st |-> st, ret |-> None, raised |-> FALSE]
    ELSE LET called == [st EXCEPT !.calls[s] = @ + 1]
             out == parse_function(k, s, hs.sections[s])
         IN  IF ~out.raised
             THEN [st |-> called, ret |-> out.value, raised |-> FALSE]
             ELSE IF dbg
             THEN [st |-> called, ret |-> None, raised |-> TRUE]
             ELSE [st |-> [called EXCEPT !.parsing_errors = Append(@, s)],
                   ret |-> [rows_of |-> s, host_key |-> k], raised |-> FALSE]

\* SectionsParser._parse_raw_data
parse_raw_data(dbg, k, hs, st, s) ==
    IF s \notin DOMAIN hs.sections
    THEN [st |-> st, ret |-> None, raised |-> FALSE]
    ELSE LET called == [st EXCEPT !.calls[s] = @ + 1]
             out == parse_function(k, s, hs.sections[s])
         IN  IF ~out.raised
             THEN [st |-> called, ret |-> out.value, raised |-> FALSE]
             ELSE IF dbg
             THEN [st |-> called, ret |-> None, raised |-> TRUE]
             ELSE [st |-> [called EXCEPT !.parsing_errors = Append(@, s)],
                   ret |-> None, raised |-> FALSE]

\* _ParsingResult
ParsingResult(data, cache_info) == [data |-> data, cache_info |-> cache_info]

\* the setdefault of parse (lines 87-95) on the outcome r of _parse_raw_data: a
\* fault leaves parse before it
memoize_parsed(hs, s, r) ==
    IF r.raised
    THEN r
    ELSE LET v == IF r.ret = None THEN None ELSE ParsingResult(r.ret, CacheInfoGet(hs, s))
         IN  [st |-> [r.st EXCEPT !.memoized_results[s] = v], ret |-> v, raised |-> FALSE]

\* parse with a truthiness test of the memoized result in place of the
\* membership test: a memoized None counts as not memoized
parse_falsy(dbg, k, hs, st, s) ==
    IF st.memoized_results[s] \notin {Unset, None}
    THEN [st |-> st, ret |-> st.memoized_results[s], raised |-> FALSE]
    ELSE memoize_parsed(hs, s, parse_raw_data(dbg, k, hs, st, s))

\* SectionsParser.parse
parse(dbg, k, hs, st, s) ==
    IF st.memoized_results[s] # Unset
    THEN [st |-> st, ret |-> st.memoized_results[s], raised |-> FALSE]
    ELSE memoize_parsed(hs, s, parse_raw_data(dbg, k, hs, st, s))

\* disable deleting the memoized results of the names
disable_forgets(st, raw_section_names) ==
    [st EXCEPT !.memoized_results =
        [s \in Sections |-> IF s \in raw_section_names THEN Unset ELSE @[s]]]

\* disable marking every raw section absent, whatever the names
disable_all(st, raw_section_names) ==
    [st EXCEPT !.memoized_results = [s \in Sections |-> None]]

\* SectionsParser.disable
disable(st, raw_section_names) ==
    [st EXCEPT !.memoized_results =
        [s \in Sections |-> IF s \in raw_section_names THEN None ELSE @[s]]]

(***************************************************************************)
(* ParsedSectionsResolver                                                  *)
(***************************************************************************)
\* ParsedSectionsResolver._init_superseders: the plugins superseding a raw section
init_superseders(plugs, name) ==
    Filter(plugs, {p \in Range(plugs) : name \in section_plugins[p].supersedes})

\* ParsedSectionsResolver._init_producers: the plugins producing a parsed section
init_producers(plugs, parsed_section_name) ==
    Filter(plugs, {p \in Range(plugs) :
                      section_plugins[p].parsed_section_name = parsed_section_name})

\* ResolvedResult
ResolvedResult(producer, parsing_result) ==
    [section |-> producer,
     parsed_data |-> parsing_result.data,
     cache_info |-> parsing_result.cache_info]

\* what one call of resolve does to the parser, in order: a call of
\* parser.parse on a superseder (line 177) or on a producer (line 180), found
\* telling whether it returned a result, and a call of parser.disable on what
\* a superseder supersedes (line 178)
ParseCall(role, name, r) ==
    [op |-> "parse", role |-> role, name |-> name, found |-> (~r.raised /\ r.ret # None)]
DisableCall(superseder) ==
    [op |-> "disable", role |-> "superseder", name |-> superseder, found |-> TRUE]

\* the outcome of the rest of a call of resolve after the calls tr
After(tr, outcome) == [outcome EXCEPT !.trace = tr \o @]

RECURSIVE parse_superseders(_, _, _, _, _)

\* the body of the loop over the superseders without its call of disable
after_superseder_keep(dbg, k, hs, superseder, r, rest) ==
    IF r.raised
    THEN [st |-> r.st, raised |-> TRUE, trace |-> <<ParseCall("superseder", superseder, r)>>]
    ELSE After(<<ParseCall("superseder", superseder, r)>>,
               parse_superseders(dbg, k, hs, r.st, rest))

\* the body of the loop over the superseders disabling what the superseder
\* supersedes whether or not the superseder parsed
after_superseder_eager(dbg, k, hs, superseder, r, rest) ==
    IF r.raised
    THEN [st |-> r.st, raised |-> TRUE, trace |-> <<ParseCall("superseder", superseder, r)>>]
    ELSE After(<<ParseCall("superseder", superseder, r), DisableCall(superseder)>>,
               parse_superseders(dbg, k, hs,
                                 disable(r.st, section_plugins[superseder].supersedes), rest))

\* the body of the loop over the superseders leaving the loop when the
\* superseder parsed
after_superseder_first(dbg, k, hs, superseder, r, rest) ==
    IF r.raised
    THEN [st |-> r.st, raised |-> TRUE, trace |-> <<ParseCall("superseder", superseder, r)>>]
    ELSE IF r.ret # None
    THEN [st |-> disable(r.st, section_plugins[superseder].supersedes), raised |-> FALSE,
          trace |-> <<ParseCall("superseder", superseder, r), DisableCall(superseder)>>]
    ELSE After(<<ParseCall("superseder", superseder, r)>>,
               parse_superseders(dbg, k, hs, r.st, rest))

\* the body of the loop over the superseders (lines 177-178) on the outcome r
\* of parsing the superseder, and the rest of the loop
after_superseder(dbg, k, hs, superseder, r, rest) ==
    IF r.raised
    THEN [st |-> r.st, raised |-> TRUE, trace |-> <<ParseCall("superseder", superseder, r)>>]
    ELSE IF r.ret # None
    THEN After(<<ParseCall("superseder", superseder, r), DisableCall(superseder)>>,
               parse_superseders(dbg, k, hs,
                                 disable(r.st, section_plugins[superseder].supersedes), rest))
    ELSE After(<<ParseCall("superseder", superseder, r)>>,
               parse_superseders(dbg, k, hs, r.st, rest))

\* the loop over the superseders of one producer (resolve, lines 176-178)
parse_superseders(dbg, k, hs, st, superseders) ==
    IF superseders = <<>>
    THEN [st |-> st, raised |-> FALSE, trace |-> <<>>]
    ELSE after_superseder(dbg, k, hs, Head(superseders),
                          parse(dbg, k, hs, st, Head(superseders)),
                          Tail(superseders))

RECURSIVE try_producers(_, _, _, _, _, _)

\* the end of the body of the loop over the producers going on to the next
\* producer though this one parsed, and returning the first that parsed
after_producer_all(dbg, k, hs, plugs, producers, r) ==
    IF r.raised
    THEN [st |-> r.st, ret |-> None, raised |-> TRUE,
          trace |-> <<ParseCall("producer", Head(producers), r)>>]
    ELSE IF r.ret # None
    THEN After(<<ParseCall("producer", Head(producers), r)>>,
               [try_producers(dbg, k, hs, plugs, r.st, Tail(producers))
                   EXCEPT !.ret = ResolvedResult(Head(producers), r.ret)])
    ELSE After(<<ParseCall("producer", Head(producers), r)>>,
               try_producers(dbg, k, hs, plugs, r.st, Tail(producers)))

\* the end of the body of the loop over the producers (lines 180-188) on the
\* outcome r of parsing the producer, and the rest of the loop
after_producer(dbg, k, hs, plugs, producers, r) ==
    IF r.raised
    THEN [st |-> r.st, ret |-> None, raised |-> TRUE,
          trace |-> <<ParseCall("producer", Head(producers), r)>>]
    ELSE IF r.ret # None
    THEN [st |-> r.st, ret |-> ResolvedResult(Head(producers), r.ret), raised |-> FALSE,
          trace |-> <<ParseCall("producer", Head(producers), r)>>]
    ELSE After(<<ParseCall("producer", Head(producers), r)>>,
               try_producers(dbg, k, hs, plugs, r.st, Tail(producers)))

\* the body of the loop over the producers once its superseders are parsed,
\* with outcome a
after_superseders(dbg, k, hs, plugs, producers, a) ==
    IF a.raised
    THEN [st |-> a.st, ret |-> None, raised |-> TRUE, trace |-> a.trace]
    ELSE After(a.trace,
               after_producer(dbg, k, hs, plugs, producers,
                              parse(dbg, k, hs, a.st, Head(producers))))

\* the loop over the producers parsing each producer before the plugins that
\* supersede it
try_producers_late(dbg, k, hs, plugs, st, producers) ==
    IF producers = <<>>
    THEN [st |-> st, ret |-> None, raised |-> FALSE, trace |-> <<>>]
    ELSE LET r == parse(dbg, k, hs, st, Head(producers))
             a == parse_superseders(dbg, k, hs, r.st,
                                    init_superseders(plugs, Head(producers)))
             tr == <<ParseCall("producer", Head(producers), r)>>
         IN  IF r.raised
             THEN [st |-> r.st, ret |-> None, raised |-> TRUE, trace |-> tr]
             ELSE IF a.raised
             THEN [st |-> a.st, ret |-> None, raised |-> TRUE, trace |-> tr \o a.trace]
             ELSE IF r.ret # None
             THEN [st |-> a.st, ret |-> ResolvedResult(Head(producers), r.ret),
                   raised |-> FALSE, trace |-> tr \o a.trace]
             ELSE After(tr \o a.trace,
                        try_producers(dbg, k, hs, plugs, a.st, Tail(producers)))

\* the loop over the producers (resolve, lines 173-190)
try_producers(dbg, k, hs, plugs, st, producers) ==
    IF producers = <<>>
    THEN [st |-> st, ret |-> None, raised |-> FALSE, trace |-> <<>>]
    ELSE after_superseders(
             dbg, k, hs, plugs, producers,
             parse_superseders(dbg, k, hs, st,
                               init_superseders(plugs, Head(producers))))

\* the setdefault of resolve (lines 181-190) on the outcome r of the loop over
\* the producers: a fault leaves resolve before it
memoize_resolved(memo, parsed_section_name, r) ==
    IF r.raised
    THEN [memo |-> memo, st |-> r.st, ret |-> None, raised |-> TRUE, trace |-> r.trace]
    ELSE [memo |-> [memo EXCEPT ![parsed_section_name] = r.ret],
          st |-> r.st, ret |-> r.ret, raised |-> FALSE, trace |-> r.trace]

\* resolve without the lookup of its memoized results
resolve_fresh(dbg, k, hs, plugs, memo, st, parsed_section_name) ==
    memoize_resolved(memo, parsed_section_name,
                     try_producers(dbg, k, hs, plugs, st,
                                   init_producers(plugs, parsed_section_name)))

\* ParsedSectionsResolver.resolve on the pair (memo, st) of host key k
resolve(dbg, k, hs, plugs, memo, st, parsed_section_name) ==
    IF memo[parsed_section_name] # Unset
    THEN [memo |-> memo, st |-> st, ret |-> memo[parsed_section_name], raised |-> FALSE,
          trace |-> <<>>]
    ELSE memoize_resolved(memo, parsed_section_name,
                          try_producers(dbg, k, hs, plugs, st,
                                        init_producers(plugs, parsed_section_name)))

(***************************************************************************)
(* ParsedSectionsBroker, make_providers, store_piggybacked_sections        *)
(***************************************************************************)
\* the state of the instances if the dicts and the list were attributes of the
\* class, one for all instances
shared(instances, k, state) == [j \in DOMAIN instances |-> state]

\* the state of the instance of host key k after a call on it: every instance
\* has the dicts and the list its __init__ made
own(instances, k, state) == [instances EXCEPT ![k] = state]

\* the providers and parsed section names in the order the comprehension of
\* ParsedSectionsBroker.resolve visits them
RECURSIVE Visits(_, _)
Visits(providers, parsed_section_names) ==
    IF providers = <<>> THEN <<>>
    ELSE [i \in 1..Len(parsed_section_names) |-> <<Head(providers), parsed_section_names[i]>>]
         \o Visits(Tail(providers), parsed_section_names)

\* one more entry of a dict that keeps the entry it has
Put_first(mapping, name, value) ==
    [n \in DOMAIN mapping \cup {name} |-> IF n \in DOMAIN mapping THEN mapping[n] ELSE value]

\* one more entry of the dict the comprehension builds
Put(mapping, name, value) ==
    [n \in DOMAIN mapping \cup {name} |-> IF n = name THEN value ELSE mapping[n]]

\* one step of the comprehension: the outcome r of resolving name on the pair
\* of host key k, added to acc
visited(acc, k, name, r) ==
    [memo |-> own(acc.memo, k, r.memo),
     st |-> own(acc.st, k, r.st),
     ret |-> IF ~r.raised /\ r.ret # None THEN Put(acc.ret, name, r.ret) ELSE acc.ret,
     raised |-> r.raised]

\* resolver.resolve(parser, name) on the pair of host key k as acc holds it
resolve_in(dbg, hss, plugs, acc, k, name) ==
    resolve(dbg, k, hss[k], plugs[k], acc.memo[k], acc.st[k], name)

\* the comprehension of ParsedSectionsBroker.resolve: acc holds the pairs'
\* state (memo, st), the mapping built so far and whether a fault left it
RECURSIVE broker_visit(_, _, _, _, _)
broker_visit(dbg, hss, plugs, acc, visits) ==
    IF visits = <<>> \/ acc.raised
    THEN acc
    ELSE broker_visit(dbg, hss, plugs,
                      visited(acc, Head(visits)[1], Head(visits)[2],
                              resolve_in(dbg, hss, plugs, acc,
                                         Head(visits)[1], Head(visits)[2])),
                      Tail(visits))

\* ParsedSectionsBroker.resolve
broker_resolve(dbg, hss, plugs, memo, st, parsed_section_names, providers) ==
    broker_visit(dbg, hss, plugs,
                 [memo |-> memo, st |-> st, ret |-> <<>>, raised |-> FALSE],
                 Visits(providers, parsed_section_names))

\* make_providers: the section plugins of each host key's resolver;
\* section_plugins[section_name] raises KeyError for a raw section that has no
\* registered plugin
make_providers(hss) ==
    IF \E k \in DOMAIN hss : DOMAIN hss[k].sections \ DOMAIN section_plugins # {}
    THEN [raised |-> TRUE, value |-> None]
    ELSE [raised |-> FALSE, value |-> [k \in DOMAIN hss |-> hss[k].order]]

\* store_piggybacked_sections without the test of the source type
RECURSIVE store_piggybacked_sections_all(_, _)
store_piggybacked_sections_all(order, hss) ==
    IF order = <<>> THEN <<>>
    ELSE <<[host_key |-> Head(order),
            hostname |-> Head(order)[1],
            raw_data |-> hss[Head(order)].piggybacked_raw_data]>>
         \o store_piggybacked_sections_all(Tail(order), hss)

\* store_piggybacked_sections: its calls of store_piggyback_raw_data, each with
\* the host key the loop was at
RECURSIVE store_piggybacked_sections(_, _)
store_piggybacked_sections(order, hss) ==
    IF order = <<>> THEN <<>>
    ELSE (IF Head(order)[2] = "MANAGEMENT"
          THEN <<>>
          ELSE <<[host_key |-> Head(order),
                  hostname |-> Head(order)[1],
                  raw_data |-> hss[Head(order)].piggybacked_raw_data]>>)
         \o store_piggybacked_sections(Tail(order), hss)

(***************************************************************************)
(* The pass.                                                               *)
(***************************************************************************)
NoCall == [called |-> FALSE]

\* no call of a function outside the pairs
Idle == [fn |-> "none"]

\* the collected host sections of a pass over the host keys in keyOrders
InitOver(keyOrders, choices, names, lists) ==
    /\ debug \in BOOLEAN
    /\ phase = "collected"
    /\ keys \in keyOrders
    /\ wanted = names
    /\ desired = lists
    /\ host_sections \in [Range(keys) -> choices]
    /\ plugins = <<>>
    /\ resolver = <<>>
    /\ parser = <<>>
    /\ vetoed = <<>>
    /\ direct = 0
    /\ broker = NoCall
    /\ stored = <<>>
    /\ call = Idle
    /\ returned = Unset

\* at most one raw section of hs has rows for which its parse function raises
\* or returns None
OneFault(hs) == Cardinality({s \in DOMAIN hs.sections : hs.sections[s] # "ok"}) <= 1

\* one host key, with some of the raw sections x, y and z (each superseded by the
\* next) in any order, or with some of the unrelated raw sections z and g, or
\* with x and a raw section u that has no registered plugin
Init ==
    InitOver({<<HostA>>},
             {hs \in HostSectionsOver({"x", "y", "z"}, {"ok", "nil", "bad"}, {"pb"}) : OneFault(hs)}
             \cup HostSectionsOver({"z", "g"}, {"ok", "nil", "bad"}, {"pb"})
             \cup {HostSections(o, [s \in {"x", "u"} |-> "ok"], "pb") : o \in Orders({"x", "u"})},
             ParsedNames,
             {<<"P">>, <<"G", "P", "Q">>})

\* two host keys, one of them possibly a management board, each with few raw
\* sections and with or without piggybacked data
InitHosts ==
    InitOver(Orders({HostA, HostB}) \cup Orders({HostA, HostM}),
             {HostSections(<<>>, <<>>, ""),
              HostSections(<<"x">>, [s \in {"x"} |-> "ok"], "pb"),
              HostSections(<<"x">>, [s \in {"x"} |-> "bad"], ""),
              HostSections(<<"z", "x">>, [s \in {"x", "z"} |-> "ok"], "pb")},
             {"P"},
             {<<"G", "P">>})

\* the registered plugins that supersede a raw section of hs and whose own raw
\* section hs does not have
Superseding(hs) ==
    {p \in Sections \ DOMAIN hs.sections :
        section_plugins[p].supersedes \cap DOMAIN hs.sections # {}}

\* the pass after make_providers with outcome r: its pairs, or none when it raised
Provided(r) ==
    /\ phase' = IF r.raised THEN "raised" ELSE "provided"
    /\ plugins' = IF r.raised THEN <<>> ELSE r.value
    /\ resolver' = IF r.raised THEN <<>>
                   ELSE [k \in Range(keys) |-> [n \in ParsedNames |-> Unset]]
    /\ parser' = IF r.raised THEN <<>> ELSE [k \in Range(keys) |-> SectionsParser]
    /\ vetoed' = IF r.raised THEN <<>> ELSE [k \in Range(keys) |-> FALSE]

\* the pairs as make_providers builds them
MakeProviders ==
    /\ phase = "collected"
    /\ Provided(make_providers(host_sections))
    /\ direct' = 0
    /\ UNCHANGED <<call, returned, debug, keys, wanted, desired, host_sections, broker, stored>>

\* the pairs of a caller of ParsedSectionsResolver and SectionsParser who hands
\* the resolver, after the plugins of the host's raw sections, every registered
\* plugin that supersedes one of them, though the host has no such raw section
ConstructProviders ==
    /\ phase = "collected"
    /\ \E k \in Range(keys) : Superseding(host_sections[k]) # {}
    /\ phase' = "provided"
    /\ plugins' = [k \in Range(keys) |->
                      Filter(host_sections[k].order, Sections)
                      \o Filter(RegistrationOrder, Superseding(host_sections[k]))]
    /\ resolver' = [k \in Range(keys) |-> [n \in ParsedNames |-> Unset]]
    /\ parser' = [k \in Range(keys) |-> SectionsParser]
    /\ vetoed' = [k \in Range(keys) |-> FALSE]
    /\ direct' = 0
    /\ UNCHANGED <<call, returned, debug, keys, wanted, desired, host_sections, broker, stored>>

\* the raw sections the plugins of a resolver name: their own and those they supersede
Named(plugs) == Range(plugs) \cup UNION {section_plugins[p].supersedes : p \in Range(plugs)}

\* no parse function is invoked more often than the model follows
Bounded(st) == \A s \in Sections : st.calls[s] <= MaxCalls

\* the pair of host key k after a call on it with outcome r
Returned(k, r) ==
    /\ Bounded(r.st)
    /\ parser' = own(parser, k, r.st)

\* the pairs after a call of the broker with outcome r, and what it returned
BrokerReturned(names, r) ==
    /\ \A k \in Range(keys) : Bounded(r.st[k])
    /\ parser' = r.st
    /\ resolver' = r.memo
    /\ broker' = IF r.raised THEN [called |-> TRUE, raised |-> TRUE]
                 ELSE [called |-> TRUE, raised |-> FALSE, names |-> Range(names), ret |-> r.ret]

\* a caller's parser.parse(section_name, parse_function)
Parse(k, s) ==
    /\ phase = "provided"
    /\ s \in Named(plugins[k])
    /\ direct < MaxDirect
    /\ Returned(k, parse(debug, k, host_sections[k], parser[k], s))
    /\ direct' = direct + 1
    /\ broker' = NoCall
    /\ UNCHANGED <<call, returned, debug, phase, keys, wanted, desired, host_sections, plugins, resolver, vetoed, stored>>

\* a caller's parser.disable(raw_section_names)
Disable(k, names) ==
    /\ phase = "provided"
    /\ names \subseteq Named(plugins[k])
    /\ direct < MaxDirect
    /\ parser' = own(parser, k, disable(parser[k], names))
    /\ vetoed' = [vetoed EXCEPT ![k] = TRUE]
    /\ direct' = direct + 1
    /\ broker' = NoCall
    /\ UNCHANGED <<call, returned, debug, phase, keys, wanted, desired, host_sections, plugins, resolver, stored>>

\* the pair of host key k after a call of resolve on it with outcome r
ResolveReturned(k, r) ==
    /\ Returned(k, r)
    /\ resolver' = own(resolver, k, r.memo)

\* a caller's resolver.resolve(parser, parsed_section_name)
Resolve(k, n) ==
    /\ phase = "provided"
    /\ ResolveReturned(k, resolve(debug, k, host_sections[k], plugins[k],
                                  resolver[k], parser[k], n))
    /\ broker' = NoCall
    /\ UNCHANGED <<call, returned, debug, phase, keys, wanted, desired, host_sections, plugins, vetoed, direct, stored>>

\* ParsedSectionsBroker.resolve(parsed_section_names, providers.values())
BrokerResolve(names) ==
    /\ phase = "provided"
    /\ BrokerReturned(names, broker_resolve(debug, host_sections, plugins,
                                            resolver, parser, names, keys))
    /\ UNCHANGED <<call, returned, debug, phase, keys, wanted, desired, host_sections, plugins, vetoed, direct, stored>>

\* store_piggybacked_sections(host_sections)
StorePiggyback ==
    /\ phase = "collected"
    /\ Len(stored) < MaxPublish
    /\ stored' = Append(stored, store_piggybacked_sections(keys, host_sections))
    /\ UNCHANGED <<call, returned, debug, phase, keys, wanted, desired, host_sections, plugins, resolver, parser, vetoed, direct, broker>>

Next ==
    \/ MakeProviders
    \/ ConstructProviders
    \/ \E k \in Range(keys), s \in Sections : Parse(k, s)
    \/ \E k \in Range(keys), s \in Sections : Disable(k, {s})
    \/ \E k \in Range(keys), n \in wanted : Resolve(k, n)
    \/ \E names \in desired : BrokerResolve(names)
    \/ StorePiggyback

Spec == Init /\ [][Next]_vars

SpecHosts == InitHosts /\ [][Next]_vars

(***************************************************************************)
(* filter_out_errors.  A HostSections is kept here as its sections alone:  *)
(* raw section name -> rows, the rows of a source being its position in    *)
(* the input.                                                              *)
(***************************************************************************)
\* HostSections()
EmptyHostSections == <<>>

\* HostSections.__add__ (cmk/checkers/host_sections.py): the union of the
\* sections, the rows of a section of both appended
Merge(a, b) ==
    [s \in DOMAIN a \cup DOMAIN b |->
        (IF s \in DOMAIN a THEN a[s] ELSE <<>>) \o (IF s \in DOMAIN b THEN b[s] ELSE <<>>)]

\* HostKey(source.hostname, source.source_type)
HostKeyOf(source) == <<source.hostname, source.source_type>>

\* dict.setdefault(key, value)
setdefault(mapping, key, value) ==
    IF key \in DOMAIN mapping THEN mapping
    ELSE [j \in DOMAIN mapping \cup {key} |-> IF j = key THEN value ELSE mapping[j]]

\* lines 34-41: the outcome of a source, merged if it is ok
merged(output, host_key, host_section) ==
    IF host_section.is_ok
    THEN [output EXCEPT ![host_key] = Merge(@, host_section.ok)]
    ELSE output

\* the body of the loop with the setdefault only for a source that is ok
filtered_ok_only(output, pair) ==
    IF pair.host_section.is_ok
    THEN merged(setdefault(output, HostKeyOf(pair.source), EmptyHostSections),
                HostKeyOf(pair.source), pair.host_section)
    ELSE output

\* the body of the loop of filter_out_errors (lines 31-41)
filtered(output, pair) ==
    merged(setdefault(output, HostKeyOf(pair.source), EmptyHostSections),
           HostKeyOf(pair.source), pair.host_section)

\* the loop of filter_out_errors over the pairs left
RECURSIVE filter_loop(_, _)
filter_loop(output, pairs) ==
    IF pairs = <<>> THEN output
    ELSE filter_loop(filtered(output, Head(pairs)), Tail(pairs))

\* filter_out_errors on its argument host_sections, a sequence of pairs
filter_out_errors(pairs) == filter_loop(<<>>, pairs)

\* the sources of a pass and the outcomes of source number i: an error, or
\* host sections with some raw sections whose rows are i
SourceInfos ==
    {[hostname |-> k[1], source_type |-> k[2]] : k \in {HostA, HostB, HostM}}

Outcomes(i) ==
    {[is_ok |-> FALSE, error |-> "exception"]}
    \cup {[is_ok |-> TRUE, ok |-> [s \in S |-> <<i>>]] : S \in {{}, {"x"}, {"z"}}}

\* the inputs of filter_out_errors of up to MaxSources pairs
FetchedUpTo(n) ==
    UNION {{q \in [1..m -> [source : SourceInfos,
                            host_section : UNION {Outcomes(i) : i \in 1..m}]] :
               \A i \in 1..m : q[i].host_section \in Outcomes(i)}
           : m \in 0..n}

(***************************************************************************)
(* ParsedSectionsBroker.get_cache_info                                     *)
(***************************************************************************)
Minimum(S) == CHOOSE m \in S : \A x \in S : m <= x
Maximum(S) == CHOOSE m \in S : \A x \in S : x <= m

\* get_cache_info returning the cache info it was handed first
get_cache_info_first(cache_infos) ==
    IF cache_infos = <<>> THEN None ELSE Head(cache_infos)

\* ParsedSectionsBroker.get_cache_info
get_cache_info(cache_infos) ==
    IF cache_infos = <<>>
    THEN None
    ELSE [ats |-> Minimum({cache_infos[i].ats : i \in 1..Len(cache_infos)}),
          interval |-> Maximum({cache_infos[i].interval : i \in 1..Len(cache_infos)})]

\* the cache infos of the raw sections, and some more
CacheInfos ==
    {CacheInfoOf("x"), CacheInfoOf("z")}
    \cup {[ats |-> CacheInfoOf("x").ats, interval |-> CacheInfoOf("z").interval],
          [ats |-> CacheInfoOf("z").ats, interval |-> CacheInfoOf("x").interval]}

\* the inputs of get_cache_info of up to n cache infos
CacheInfosUpTo(n) == UNION {[1..m -> CacheInfos] : m \in 0..n}

\* a function called outside a pass: nothing of a pass exists
InitCalls ==
    /\ debug = FALSE
    /\ phase = "none"
    /\ keys = <<>>
    /\ wanted = {}
    /\ desired = {}
    /\ host_sections = <<>>
    /\ plugins = <<>>
    /\ resolver = <<>>
    /\ parser = <<>>
    /\ vetoed = <<>>
    /\ direct = 0
    /\ broker = NoCall
    /\ stored = <<>>
    /\ call \in {[fn |-> "filter_out_errors", args |-> a] : a \in FetchedUpTo(MaxSources)}
               \cup {[fn |-> "get_cache_info", args |-> a] : a \in CacheInfosUpTo(MaxInfos)}
    /\ returned = Unset

\* the variables of a pass
pass == <<debug, phase, keys, wanted, desired, host_sections, plugins, resolver, parser,
          vetoed, direct, broker, stored>>

\* filter_out_errors(host_sections)
FilterOutErrors ==
    /\ call.fn = "filter_out_errors"
    /\ returned = Unset
    /\ returned' = [value |-> filter_out_errors(call.args)]
    /\ UNCHANGED <<call, pass>>

\* ParsedSectionsBroker.get_cache_info(cache_infos)
GetCacheInfo ==
    /\ call.fn = "get_cache_info"
    /\ returned = Unset
    /\ returned' = [value |-> get_cache_info(call.args)]
    /\ UNCHANGED <<call, pass>>

NextCalls ==
    \/ FilterOutErrors
    \/ GetCacheInfo

SpecCalls == InitCalls /\ [][NextCalls]_vars

(***************************************************************************)
(* Vocabulary of the properties.                                           *)
(***************************************************************************)
\* the host keys that have a resolver and a parser
Pairs == IF phase = "provided" THEN Range(keys) ELSE {}

\* what the rows of raw section s of host key k make the parse function do
Rows(k, s) ==
    IF s \in DOMAIN host_sections[k].sections THEN host_sections[k].sections[s] ELSE "absent"

Memo(k, s) == parser[k].memoized_results[s]

NameOf(s) == section_plugins[s].parsed_section_name

\* the parsing result of raw section s of host key k when its parse function
\* returns a value
Parsed(k, s) ==
    ParsingResult(parse_function(k, s, "ok").value, CacheInfoGet(host_sections[k], s))

\* what parser.parse(s) and resolver.resolve(parser, n) would do now
ParseNow(k, s) == parse(debug, k, host_sections[k], parser[k], s)
ResolveNow(k, n) ==
    resolve(debug, k, host_sections[k], plugins[k], resolver[k], parser[k], n)

\* plugin a is listed before plugin b
Precedes(plugs, a, b) ==
    \E i, j \in 1..Len(plugs) : i < j /\ plugs[i] = a /\ plugs[j] = b

\* plugin b supersedes raw section a and produces the parsed section a's plugin produces
Competing(a, b) ==
    /\ a \in section_plugins[b].supersedes
    /\ NameOf(a) = NameOf(b)

\* sy supersedes sx and sz supersedes sy
Chain(sx, sy, sz) ==
    /\ sx \in section_plugins[sy].supersedes
    /\ sy \in section_plugins[sz].supersedes

\* s is the first producer of its parsed section among the plugins
FirstProducer(plugs, s) ==
    /\ s \in Range(plugs)
    /\ Head(init_producers(plugs, NameOf(s))) = s

(***************************************************************************)
(* C1: supersedence precedence.                                            *)
(***************************************************************************)
\* C1 as stated: when plugin B supersedes raw section a and produces the parsed
\* section P that a's plugin A produces, both raw sections are present and parse,
\* then for either order of A and B among the resolver's plugins resolve(P)
\* returns B with B's data and a direct parse of a afterwards returns absent.
C1_SupersedenceEitherOrder ==
    \A k \in Pairs : \A a, b \in Range(plugins[k]) :
        (/\ Competing(a, b)
         /\ Rows(k, a) = "ok" /\ Rows(k, b) = "ok"
         /\ ~vetoed[k]
         /\ resolver[k][NameOf(a)] # Unset)
        => /\ resolver[k][NameOf(a)] = ResolvedResult(b, Parsed(k, b))
           /\ ParseNow(k, a).ret = None

\* C1 amended: under the same conditions (both parse functions returning a
\* value, no caller having disabled a section of the pair) resolve(P) returns B
\* with B's data for either order of A and B; a direct parse of a afterwards
\* returns absent when A is listed before B (when B is listed first, B wins as
\* the first candidate and the resolve never disables a).
C1_Supersedence ==
    \A k \in Pairs : \A a, b \in Range(plugins[k]) :
        (/\ Competing(a, b)
         /\ Rows(k, a) = "ok" /\ Rows(k, b) = "ok"
         /\ ~vetoed[k]
         /\ resolver[k][NameOf(a)] # Unset)
        => /\ resolver[k][NameOf(a)] = ResolvedResult(b, Parsed(k, b))
           /\ Precedes(plugins[k], a, b) => ParseNow(k, a).ret = None

\* A before B, P resolved to B, and a, whose parse function had returned a
\* value, absent
C1_Witness ==
    \E k \in Pairs : \E a, b \in Range(plugins[k]) :
        /\ Competing(a, b)
        /\ Rows(k, a) = "ok" /\ Rows(k, b) = "ok"
        /\ ~vetoed[k]
        /\ Precedes(plugins[k], a, b)
        /\ resolver[k][NameOf(a)] = ResolvedResult(b, Parsed(k, b))
        /\ parser[k].calls[a] = 1
        /\ Memo(k, a) = None

(***************************************************************************)
(* C2: memoization with at-most-once parsing.                              *)
(***************************************************************************)
\* C2 as stated: a parser invokes the parse function of a raw section at most
\* once in a pass, however often and by whatever path the section is asked for.
C2_ParsedAtMostOnce ==
    \A k \in Pairs : \A s \in Sections : parser[k].calls[s] <= 1

\* C2 amended: a parser invokes the parse function of a raw section at most once
\* in a pass, unless debug mode is on and the parse function raises (the fault
\* leaves parse before anything is memoized, so every request invokes it
\* again); a request for a memoized section invokes nothing.
C2_ParsedOnceUnlessDebugFault ==
    \A k \in Pairs : \A s \in Sections :
        /\ (~debug \/ Rows(k, s) # "bad") => parser[k].calls[s] <= 1
        /\ Memo(k, s) # Unset => ParseNow(k, s).st = parser[k]

\* a section parsed once although a caller asked for it and every parsed
\* section of the pass has been resolved
C2_Witness ==
    \E k \in Pairs : \E s \in Range(plugins[k]) :
        /\ parser[k].calls[s] = 1
        /\ direct = MaxDirect
        /\ Memo(k, s) = Parsed(k, s)
        /\ \A n \in wanted : resolver[k][n] # Unset

(***************************************************************************)
(* C3: transitive suppression.                                             *)
(***************************************************************************)
\* C3 as stated: y supersedes x, z supersedes y, z is present and parses; after
\* a resolve of the parsed section x's plugin produces, x and y are absent in
\* the parser and a direct parse of y returns absent.
C3_TransitiveSuppressionAlways ==
    \A k \in Pairs : \A sx, sy, sz \in Sections :
        (/\ Chain(sx, sy, sz)
         /\ sx \in Range(plugins[k]) /\ sz \in Range(plugins[k])
         /\ Rows(k, sz) = "ok"
         /\ ~vetoed[k]
         /\ resolver[k][NameOf(sx)] # Unset)
        => /\ Memo(k, sx) = None /\ Memo(k, sy) = None
           /\ ParseNow(k, sx).ret = None /\ ParseNow(k, sy).ret = None

\* C3 amended: the same (z's parse function returning a value, no caller having
\* disabled a section of the pair), provided x's plugin is the first producer of
\* its parsed section among the resolver's plugins (a producer listed before it
\* that parses ends the resolve before the superseders of x are parsed).
C3_TransitiveSuppression ==
    \A k \in Pairs : \A sx, sy, sz \in Sections :
        (/\ Chain(sx, sy, sz)
         /\ FirstProducer(plugins[k], sx) /\ sz \in Range(plugins[k])
         /\ Rows(k, sz) = "ok"
         /\ ~vetoed[k]
         /\ resolver[k][NameOf(sx)] # Unset)
        => /\ Memo(k, sx) = None /\ Memo(k, sy) = None
           /\ ParseNow(k, sx).ret = None /\ ParseNow(k, sy).ret = None

\* x, y and z present, y parsed to a value and then disabled along with x
C3_Witness ==
    \E k \in Pairs : \E sx, sy, sz \in Range(plugins[k]) :
        /\ Chain(sx, sy, sz)
        /\ FirstProducer(plugins[k], sx)
        /\ Rows(k, sx) = "ok" /\ Rows(k, sy) = "ok" /\ Rows(k, sz) = "ok"
        /\ ~vetoed[k]
        /\ resolver[k][NameOf(sx)] # Unset
        /\ parser[k].calls[sy] = 1
        /\ Memo(k, sx) = None /\ Memo(k, sy) = None

(***************************************************************************)
(* C4: fault isolation (debug mode off).                                   *)
(***************************************************************************)
\* the number of entries of seq that are e
Count(seq, e) == Cardinality({i \in 1..Len(seq) : seq[i] = e})

\* C4: with debug mode off, no parse and no resolve lets a fault out; a raw
\* section whose parse function raises has one error entry per invocation of
\* the function and at most one invocation, is absent from then on, and a
\* request for it leaves exactly one entry (none if it was disabled before it
\* was ever parsed); a present raw section that parses, is superseded by no
\* plugin of the resolver and is the first producer of its parsed section still
\* parses and resolves to its own data (its parse function returning a value).
C4_FaultIsolation ==
    ~debug =>
    \A k \in Pairs :
        /\ \A s \in Sections : ~ParseNow(k, s).raised
        /\ \A n \in ParsedNames : ~ResolveNow(k, n).raised
        /\ \A bad \in Sections :
              Rows(k, bad) = "bad" =>
                /\ Count(parser[k].parsing_errors, bad) = parser[k].calls[bad]
                /\ parser[k].calls[bad] <= 1
                /\ parser[k].calls[bad] = 1 => Memo(k, bad) = None
                /\ ParseNow(k, bad).ret = None
                /\ ~(Memo(k, bad) = None /\ parser[k].calls[bad] = 0)
                      => Count(ParseNow(k, bad).st.parsing_errors, bad) = 1
        /\ \A good, bad \in Range(plugins[k]) :
              (/\ Rows(k, bad) = "bad" /\ Rows(k, good) = "ok"
               /\ init_superseders(plugins[k], good) = <<>>
               /\ FirstProducer(plugins[k], good)
               /\ ~vetoed[k])
              => /\ ParseNow(k, good).ret = Parsed(k, good)
                 /\ ResolveNow(k, NameOf(good)).ret = ResolvedResult(good, Parsed(k, good))

\* debug off: the faulty section was parsed, left one error and its parsed
\* section resolved absent, and the good section resolved to its data
C4_Witness ==
    /\ ~debug
    /\ \E k \in Pairs : \E good, bad \in Range(plugins[k]) :
          /\ Rows(k, bad) = "bad" /\ Rows(k, good) = "ok"
          /\ good \notin section_plugins[bad].supersedes
          /\ bad \notin section_plugins[good].supersedes
          /\ ~vetoed[k]
          /\ parser[k].calls[bad] = 1
          /\ parser[k].parsing_errors = <<bad>>
          /\ Memo(k, bad) = None
          /\ resolver[k][NameOf(bad)] = None
          /\ resolver[k][NameOf(good)] = ResolvedResult(good, Parsed(k, good))

(***************************************************************************)
(* C5: idempotent parse.                                                   *)
(***************************************************************************)
\* C5 as stated: two parse calls for a raw section on one parser return the
\* identical outcome, whatever other section is parsed and whatever other
\* parsed section is resolved between them.
C5_IdempotentParse ==
    \A k \in Pairs : \A s \in Named(plugins[k]) :
        LET p1 == ParseNow(k, s)
        IN  ~p1.raised =>
            /\ \A t \in Sections \ {s} :
                  LET q == parse(debug, k, host_sections[k], p1.st, t)
                  IN  parse(debug, k, host_sections[k], q.st, s).ret = p1.ret
            /\ \A n \in ParsedNames \ {NameOf(s)} :
                  LET r == resolve(debug, k, host_sections[k], plugins[k],
                                   resolver[k], p1.st, n)
                  IN  parse(debug, k, host_sections[k], r.st, s).ret = p1.ret

\* C5 amended: two parse calls for a raw section on one parser return the
\* identical outcome whatever other section is parsed between them; after a
\* resolve between them the second call returns the same outcome or, when the
\* resolve parsed a superseder of the section to a value and so disabled the
\* section, absent.
C5_IdempotentParseUnlessDisabled ==
    \A k \in Pairs : \A s \in Named(plugins[k]) :
        LET p1 == ParseNow(k, s)
        IN  ~p1.raised =>
            /\ \A t \in Sections \ {s} :
                  LET q == parse(debug, k, host_sections[k], p1.st, t)
                  IN  parse(debug, k, host_sections[k], q.st, s).ret = p1.ret
            /\ \A n \in ParsedNames :
                  LET r == resolve(debug, k, host_sections[k], plugins[k],
                                   resolver[k], p1.st, n)
                      p2 == parse(debug, k, host_sections[k], r.st, s)
                  IN  /\ ~p2.raised
                      /\ \/ p2.ret = p1.ret
                         \/ /\ p2.ret = None
                            /\ \E b \in Range(plugins[k]) :
                                  /\ s \in section_plugins[b].supersedes
                                  /\ r.st.memoized_results[b] \notin {Unset, None}

\* a raw section whose parse function returned a value and that a resolve,
\* not a caller, has disabled since
C5_Witness ==
    \E k \in Pairs : \E s \in Range(plugins[k]) :
        /\ Rows(k, s) = "ok"
        /\ parser[k].calls[s] = 1
        /\ direct > 0
        /\ ~vetoed[k]
        /\ Memo(k, s) = None
        /\ resolver[k][NameOf(s)] = Unset

(***************************************************************************)
(* C6: resolve memoization.                                                *)
(***************************************************************************)
\* C6: once resolve has returned a result (absent included) for a parsed
\* section on a pair, later resolve calls for it return the same result and run
\* nothing again, even if raw sections are disabled in between.
C6_ResolveMemoized ==
    \A k \in Pairs : \A n \in ParsedNames :
        /\ resolver[k][n] # Unset =>
              LET r == ResolveNow(k, n)
              IN  /\ ~r.raised
                  /\ r.ret = resolver[k][n]
                  /\ r.st = parser[k]
                  /\ r.memo = resolver[k]
        /\ LET r1 == ResolveNow(k, n)
           IN  ~r1.raised =>
               \A t \in Sections :
                   LET d == disable(r1.st, {t})
                       r2 == resolve(debug, k, host_sections[k], plugins[k], r1.memo, d, n)
                   IN  /\ ~r2.raised
                       /\ r2.ret = r1.ret
                       /\ r2.st = d
                       /\ r2.memo = r1.memo

\* a parsed section resolved to the data of a raw section that a caller has
\* disabled since
C6_Witness ==
    \E k \in Pairs : \E s \in Range(plugins[k]) :
        /\ Rows(k, s) = "ok"
        /\ vetoed[k]
        /\ Memo(k, s) = None
        /\ resolver[k][NameOf(s)] = ResolvedResult(s, Parsed(k, s))

(***************************************************************************)
(* C7: fallback on absence.                                                *)
(***************************************************************************)
\* C7: plugin B supersedes raw section a and produces the parsed section P of
\* a's plugin A; the host has no raw section b (nor that of another superseder
\* of a), a is present and its parse function returns a value: resolve(P)
\* returns A with A's data and a is not disabled.
C7_FallbackOnAbsence ==
    \A k \in Pairs : \A a \in Range(plugins[k]) : \A b \in Sections :
        (/\ Competing(a, b)
         /\ Rows(k, b) = "absent" /\ Rows(k, a) = "ok"
         /\ \A p \in Range(init_superseders(plugins[k], a)) : Rows(k, p) = "absent"
         /\ ~vetoed[k])
        => LET r == ResolveNow(k, NameOf(a))
           IN  /\ ~r.raised
               /\ r.ret = ResolvedResult(a, Parsed(k, a))
               /\ r.st.memoized_results[a] = Parsed(k, a)
               /\ resolver[k][NameOf(a)] \in {Unset, r.ret}

\* B is among the resolver's plugins, b was looked up and is absent, P resolved to A
C7_Witness ==
    \E k \in Pairs : \E a, b \in Range(plugins[k]) :
        /\ Competing(a, b)
        /\ Rows(k, b) = "absent" /\ Rows(k, a) = "ok"
        /\ ~vetoed[k]
        /\ Memo(k, b) = None
        /\ Memo(k, a) = Parsed(k, a)
        /\ resolver[k][NameOf(a)] = ResolvedResult(a, Parsed(k, a))

(***************************************************************************)
(* C8: cross-host isolation.                                               *)
(***************************************************************************)
\* what the pair of host key k holds comes from k's own host sections
OwnData(k) ==
    /\ \A s \in Sections :
          Memo(k, s) \notin {Unset, None} => Rows(k, s) = "ok" /\ Memo(k, s) = Parsed(k, s)
    /\ \A n \in ParsedNames :
          resolver[k][n] \notin {Unset, None} =>
              \E s \in Range(plugins[k]) :
                  /\ Rows(k, s) = "ok"
                  /\ NameOf(s) = n
                  /\ resolver[k][n] = ResolvedResult(s, Parsed(k, s))
    /\ \A s \in Range(parser[k].parsing_errors) : Rows(k, s) = "bad"

\* a call on one pair (not through the broker) that changes it leaves every
\* other pair as it is
OnePairChanges ==
    \A k1, k2 \in Pairs :
        (/\ k1 # k2
         /\ broker' = NoCall
         /\ parser'[k1] # parser[k1] \/ resolver'[k1] # resolver[k1])
        => parser'[k2] = parser[k2] /\ resolver'[k2] = resolver[k2]

\* C8: with several host keys in a pass, parsing, disabling or resolving on the
\* pair of one host key changes no memoized result and no error of the pair of
\* another, and every pair holds results of its own host key's sections only.
C8_CrossHostIsolation ==
    /\ [](\A k \in Pairs : OwnData(k))
    /\ [][OnePairChanges]_vars

\* two host keys with the same raw section, which parses on one and faults on
\* the other: each pair holds its own outcome
C8_Witness ==
    /\ ~debug
    /\ \E k1, k2 \in Pairs : \E s \in Sections :
          /\ k1 # k2
          /\ Rows(k1, s) = "ok" /\ Rows(k2, s) = "bad"
          /\ resolver[k1][NameOf(s)] = ResolvedResult(s, Parsed(k1, s))
          /\ resolver[k2][NameOf(s)] = None
          /\ parser[k1].parsing_errors = <<>>
          /\ parser[k2].parsing_errors = <<s>>

(***************************************************************************)
(* C9: broker last-writer-wins.                                            *)
(***************************************************************************)
\* C9: the mapping ParsedSectionsBroker.resolve returns has exactly the desired
\* names that some pair resolves non-absent, each with one entry: the result of
\* the last pair, in the order of the pairs, that resolves the name non-absent.
C9_BrokerLastWriterWins ==
    (broker.called /\ ~broker.raised) =>
        /\ \A k \in Pairs : \A n \in broker.names : resolver[k][n] # Unset
        /\ DOMAIN broker.ret =
               {n \in broker.names : \E k \in Pairs : resolver[k][n] # None}
        /\ \A n \in DOMAIN broker.ret :
               \E i \in 1..Len(keys) :
                   /\ resolver[keys[i]][n] # None
                   /\ \A j \in (i + 1)..Len(keys) : resolver[keys[j]][n] = None
                   /\ broker.ret[n] = resolver[keys[i]][n]

\* two pairs resolve a desired name to different non-absent results, another
\* desired name is absent on both, and the broker has returned
C9_Witness ==
    /\ broker.called /\ ~broker.raised
    /\ Len(keys) = 2
    /\ \E n, m \in broker.names :
          /\ resolver[keys[1]][n] # None
          /\ resolver[keys[2]][n] # None
          /\ resolver[keys[1]][n] # resolver[keys[2]][n]
          /\ broker.ret[n] = resolver[keys[2]][n]
          /\ m \notin DOMAIN broker.ret

(***************************************************************************)
(* C10: piggyback skip rule.                                               *)
(***************************************************************************)
\* C10: store_piggybacked_sections makes exactly one store call for every host
\* key whose source type is not management, with that host key's hostname and
\* piggybacked raw data, and none for a management host key.
C10_PiggybackSkipRule ==
    \A b \in 1..Len(stored) :
        LET batch == stored[b]
        IN  /\ \A i \in 1..Len(batch) :
                  /\ batch[i].host_key \in Range(keys)
                  /\ batch[i].host_key[2] # "MANAGEMENT"
                  /\ batch[i].hostname = batch[i].host_key[1]
                  /\ batch[i].raw_data = host_sections[batch[i].host_key].piggybacked_raw_data
            /\ \A k \in Range(keys) :
                  Cardinality({i \in 1..Len(batch) : batch[i].host_key = k})
                      = IF k[2] = "MANAGEMENT" THEN 0 ELSE 1

\* a management host key with piggybacked data in a pass whose sections were stored
C10_Witness ==
    /\ Len(stored) > 0
    /\ HostM \in Range(keys)
    /\ host_sections[HostM].piggybacked_raw_data # ""
    /\ Len(stored[1]) = 1
    /\ stored[1][1].host_key = HostA

(***************************************************************************)
(* C11: raw-result filtering.                                              *)
(***************************************************************************)
\* C11: filter_out_errors returns a store for exactly the host keys of its
\* input pairs (also for one whose sources all failed), and the store of a host
\* key holds, for every raw section, the rows of the successful outcomes of
\* that host key that have the section, each once, and no others.
C11_RawResultFiltering ==
    (call.fn = "filter_out_errors" /\ returned # Unset) =>
        /\ DOMAIN returned.value =
               {HostKeyOf(call.args[i].source) : i \in 1..Len(call.args)}
        /\ \A k \in DOMAIN returned.value :
               /\ DOMAIN returned.value[k] =
                      UNION {DOMAIN call.args[i].host_section.ok :
                                i \in {j \in 1..Len(call.args) :
                                          /\ HostKeyOf(call.args[j].source) = k
                                          /\ call.args[j].host_section.is_ok}}
               /\ \A s \in DOMAIN returned.value[k] : \A i \in 1..MaxSources + 1 :
                      Count(returned.value[k][s], i) =
                          IF /\ i <= Len(call.args)
                             /\ HostKeyOf(call.args[i].source) = k
                             /\ call.args[i].host_section.is_ok
                             /\ s \in DOMAIN call.args[i].host_section.ok
                          THEN 1 ELSE 0

\* a host key whose only source failed has an empty store, and another has
\* the rows of two successful sources in one raw section
C11_Witness ==
    /\ call.fn = "filter_out_errors" /\ returned # Unset
    /\ Len(call.args) = 3
    /\ ~call.args[1].host_section.is_ok
    /\ HostKeyOf(call.args[1].source) = HostA
    /\ returned.value[HostA] = EmptyHostSections
    /\ HostB \in DOMAIN returned.value
    /\ returned.value[HostB] = [s \in {"x"} |-> <<2, 3>>]

(***************************************************************************)
(* C12: parse success.                                                     *)
(***************************************************************************)
\* C12 as stated: when a raw section that is not memoized has rows and its
\* parse function returns without fault, parse memoizes and returns a
\* non-absent result whose data is the value the parse function returned and
\* whose cache info is that of the host sections (or None), for every value the
\* parse function can return.
C12_ParseSuccess ==
    \A k \in Pairs : \A s \in Sections :
        (/\ Rows(k, s) \in {"ok", "nil"}
         /\ Memo(k, s) = Unset)
        => LET r == ParseNow(k, s)
           IN  /\ ~r.raised
               /\ r.ret # None
               /\ r.ret = ParsingResult(parse_function(k, s, Rows(k, s)).value,
                                        CacheInfoGet(host_sections[k], s))
               /\ r.st.memoized_results[s] = r.ret

(***************************************************************************)
(* C13: disable.                                                           *)
(***************************************************************************)
\* a parse of s that returns absent, invokes no parse function and records no
\* error: it leaves the parser st as it is
AbsentUntouched(k, st, s) ==
    LET r == parse(debug, k, host_sections[k], st, s)
    IN  /\ ~r.raised
        /\ r.ret = None
        /\ r.st = st

\* disable(names) on the parser of k as it is now: the names are absent,
\* nothing else of the parser changes, and a parse of a name is AbsentUntouched
DisableNow(k, names) ==
    LET d == disable(parser[k], names)
    IN  /\ \A s \in names : d.memoized_results[s] = None /\ AbsentUntouched(k, d, s)
        /\ \A s \in Sections \ names : d.memoized_results[s] = Memo(k, s)
        /\ d.parsing_errors = parser[k].parsing_errors
        /\ d.calls = parser[k].calls

\* a raw section that is absent in a parser stays absent whatever is called
StaysAbsent ==
    \A k \in Pairs : \A s \in Sections :
        Memo(k, s) = None => parser'[k].memoized_results[s] = None

\* C13: after disable(names), every later parse of one of the names returns
\* absent without invoking its parse function and without recording a parsing
\* error, also when the section had been parsed to a value before; the
\* memoized results of the other names are unchanged.
C13_Disable ==
    /\ [](\A k \in Pairs :
            /\ \A names \in SUBSET Sections : DisableNow(k, names)
            /\ \A s \in Sections : Memo(k, s) = None => AbsentUntouched(k, parser[k], s))
    /\ [][StaysAbsent]_vars

\* a caller has disabled a raw section that nothing supersedes and that had
\* been parsed to a value, and a parsed section was resolved after that
C13_Witness ==
    \E k \in Pairs : \E s \in Range(plugins[k]) :
        /\ vetoed[k]
        /\ Rows(k, s) = "ok"
        /\ init_superseders(plugins[k], s) = <<>>
        /\ parser[k].calls[s] = 1
        /\ Memo(k, s) = None
        /\ parser[k].parsing_errors = <<>>
        /\ resolver[k][NameOf(s)] = None

(***************************************************************************)
(* C14: cache-info aggregation.                                            *)
(***************************************************************************)
\* the cache infos of seq in the order q of its positions
Reordered(seq, q) == [i \in 1..Len(seq) |-> seq[q[i]]]

\* C14: get_cache_info of an empty collection returns None; of a non-empty
\* one, the least of the timestamps and the greatest of the intervals, whatever
\* the order of the collection; (100, 60) and (80, 90) give (80, 90).
C14_CacheInfoAggregation ==
    /\ get_cache_info(<<[ats |-> 100, interval |-> 60], [ats |-> 80, interval |-> 90]>>)
           = [ats |-> 80, interval |-> 90]
    /\ (call.fn = "get_cache_info" /\ returned # Unset) =>
           /\ call.args = <<>> <=> returned.value = None
           /\ call.args # <<>> =>
                 /\ \E i \in 1..Len(call.args) : returned.value.ats = call.args[i].ats
                 /\ \E i \in 1..Len(call.args) : returned.value.interval = call.args[i].interval
                 /\ \A i \in 1..Len(call.args) :
                       /\ returned.value.ats <= call.args[i].ats
                       /\ returned.value.interval >= call.args[i].interval
           /\ \A q \in Orders(1..Len(call.args)) :
                 get_cache_info(Reordered(call.args, q)) = returned.value

\* (100, 60) and (80, 90) aggregated to (80, 90), which is neither of them
\* with a third; and the empty collection aggregated to None
C14_Witness ==
    /\ call.fn = "get_cache_info" /\ returned # Unset
    /\ Len(call.args) = 3
    /\ call.args[1] = [ats |-> 100, interval |-> 60]
    /\ call.args[2] = [ats |-> 80, interval |-> 90]
    /\ returned.value = [ats |-> 80, interval |-> 90]

(***************************************************************************)
(* C15: ordering within one call of resolve.                               *)
(***************************************************************************)
RECURSIVE Attempts(_, _)
\* every plugin superseding a candidate producer, then the producer, for the
\* candidate producers in their order
Attempts(plugs, producers) ==
    IF producers = <<>>
    THEN <<>>
    ELSE [i \in 1..Len(init_superseders(plugs, Head(producers))) |->
             [role |-> "superseder", name |-> init_superseders(plugs, Head(producers))[i]]]
         \o <<[role |-> "producer", name |-> Head(producers)]>>
         \o Attempts(plugs, Tail(producers))

\* the calls of parse among the calls tr, as role and name
ParseCalls(tr) ==
    LET IsParse(e) == e.op = "parse"
        parses == SelectSeq(tr, IsParse)
    IN  [i \in 1..Len(parses) |-> [role |-> parses[i].role, name |-> parses[i].name]]

\* the calls tr of a call of resolve for parsed name n over plugs with outcome r
\* are in order, and end with the first producer that parsed
Ordered(plugs, n, r) ==
    LET tr == r.trace
        all == Attempts(plugs, Filter(plugs, {p \in Range(plugs) :
                                        section_plugins[p].parsed_section_name = n}))
        done == ParseCalls(tr)
    IN  /\ Len(done) <= Len(all)
        /\ done = SubSeq(all, 1, Len(done))
        /\ \A j \in 1..Len(tr) :
              /\ (tr[j].op = "parse" /\ tr[j].role = "producer" /\ tr[j].found) =>
                    /\ j = Len(tr)
                    /\ r.ret # None
                    /\ r.ret.section = tr[j].name
              /\ tr[j].op = "disable" =>
                    /\ j > 1
                    /\ tr[j - 1] = [op |-> "parse", role |-> "superseder",
                                    name |-> tr[j].name, found |-> TRUE]
        /\ r.ret # None =>
              /\ tr # <<>>
              /\ tr[Len(tr)].op = "parse" /\ tr[Len(tr)].role = "producer"
              /\ tr[Len(tr)].found
        /\ (~r.raised /\ r.ret = None) => Len(done) = Len(all)
        /\ r.raised => (tr # <<>> /\ tr[Len(tr)].op = "parse" /\ ~tr[Len(tr)].found)

\* C15: in a call of resolve that is not answered from the memoized results,
\* parse is called on every plugin superseding a candidate producer before it
\* is called on the producer, the candidate producers are taken in the order of
\* the resolver's plugins, and the call ends with the first producer whose parse
\* returns a result: nothing is parsed or disabled after it.
C15_ResolveOrdering ==
    \A k \in Pairs : \A n \in ParsedNames :
        resolver[k][n] = Unset => Ordered(plugins[k], n, ResolveNow(k, n))

\* a call of resolve that parses a superseder, disables what it supersedes,
\* finds a first producer absent and returns a later one
C15_Witness ==
    \E k \in Pairs : \E n \in ParsedNames :
        /\ resolver[k][n] = Unset
        /\ parser[k] = SectionsParser
        /\ Len(init_producers(plugins[k], n)) >= 2
        /\ ResolveNow(k, n).ret # None
        /\ ResolveNow(k, n).ret.section # init_producers(plugins[k], n)[1]
        /\ \E j \in 1..Len(ResolveNow(k, n).trace) : ResolveNow(k, n).trace[j].op = "disable"

(***************************************************************************)
(* C16: the debug override.                                                *)
(***************************************************************************)
\* the fault of a call with outcome r on the pair of host key k left the
\* memoized results and the parsing errors of the parser as they were
NothingRecorded(k, r) ==
    /\ r.st.memoized_results = parser[k].memoized_results
    /\ r.st.parsing_errors = parser[k].parsing_errors

\* C16: with debug mode on, the fault of a parse function leaves parse, and the
\* call of resolve around it, at once: no parsing error is recorded, the raw
\* section is not memoized in the parser and the parsed name is not memoized in
\* the resolver.  With debug mode off no call of parse, resolve or the broker
\* lets a fault out.
C16_DebugOverride ==
    /\ broker.called => (broker.raised => debug)
    /\ \A k \in Pairs :
          /\ debug => parser[k].parsing_errors = <<>>
          /\ \A s \in Sections :
                /\ ParseNow(k, s).raised <=>
                      (debug /\ Memo(k, s) = Unset /\ Rows(k, s) = "bad")
                /\ ParseNow(k, s).raised => NothingRecorded(k, ParseNow(k, s))
          /\ \A n \in ParsedNames :
                /\ ResolveNow(k, n).raised =>
                      /\ debug
                      /\ ResolveNow(k, n).memo = resolver[k]
                      /\ ResolveNow(k, n).st.parsing_errors = <<>>
                      /\ LET tr == ResolveNow(k, n).trace
                         IN  /\ tr # <<>>
                             /\ tr[Len(tr)].op = "parse"
                             /\ Rows(k, tr[Len(tr)].name) = "bad"
                             /\ ResolveNow(k, n).st.memoized_results[tr[Len(tr)].name] = Unset

\* in debug mode a parse function was invoked and faulted in a call of resolve:
\* its raw section and the parsed name are not memoized, no error is recorded
C16_Witness ==
    \E k \in Pairs : \E s \in Sections :
        /\ debug
        /\ Rows(k, s) = "bad"
        /\ parser[k].calls[s] >= 1
        /\ Memo(k, s) = Unset
        /\ resolver[k][NameOf(s)] = Unset
        /\ parser[k].parsing_errors = <<>>
        /\ direct = 0

(***************************************************************************)
(* C17: make_providers.                                                    *)
(***************************************************************************)
\* C17: for every collected host sections, make_providers returns one pair for
\* every host key, the resolver of a host key having exactly the registered
\* plugins of the raw sections present on that host.
C17_MakeProviders ==
    phase = "collected" =>
        /\ ~make_providers(host_sections).raised
        /\ DOMAIN make_providers(host_sections).value = DOMAIN host_sections
        /\ \A k \in DOMAIN host_sections :
              Range(make_providers(host_sections).value[k])
                 = Sections \cap DOMAIN host_sections[k].sections

(***************************************************************************)
(* C18: query-order independence.                                          *)
(***************************************************************************)
\* the supersedes relation among plugs has no cycle and declares every
\* indirectly superseded section directly
Validated(plugs) ==
    \A a \in Range(plugs) :
        /\ a \notin section_plugins[a].supersedes
        /\ \A b \in Range(plugs) \cap section_plugins[a].supersedes :
              section_plugins[b].supersedes \cap Range(plugs)
                 \subseteq section_plugins[a].supersedes

\* what resolve returns for parsed name n on a pair of host key k nothing was
\* called on yet
ResolvedFirst(k, n) ==
    resolve(debug, k, host_sections[k], plugins[k],
            [m \in ParsedNames |-> Unset], SectionsParser, n).ret

\* C18: with debug mode off and a validated supersedes relation, whatever was
\* resolved or parsed on a pair before, resolve returns for a parsed name, and
\* has memoized for it, what it returns when the name is resolved first.
C18_QueryOrderIndependence ==
    \A k \in Pairs :
        (~debug /\ ~vetoed[k] /\ Validated(plugins[k])) =>
            \A n \in ParsedNames :
                /\ ResolveNow(k, n).ret = ResolvedFirst(k, n)
                /\ resolver[k][n] # Unset => resolver[k][n] = ResolvedFirst(k, n)

\* P and Q resolved on a host with x, y and z: P, produced by x and z, comes
\* from z, and Q, produced by the superseded y, is absent
C18_Witness ==
    \E k \in Pairs :
        /\ ~debug /\ ~vetoed[k] /\ Validated(plugins[k])
        /\ Range(plugins[k]) = {"x", "y", "z"}
        /\ direct = 0
        /\ resolver[k]["P"] # Unset /\ resolver[k]["P"] # None
        /\ resolver[k]["P"].section = "z"
        /\ resolver[k]["Q"] = None
        /\ Rows(k, "y") = "ok"

(***************************************************************************)
(* C19: winner consistency.                                                *)
(***************************************************************************)
\* the parsed names of host key k resolved to a result
Won(k) == {n \in ParsedNames : resolver[k][n] \notin {Unset, None}}

\* every result of the resolver of host key k names a plugin of that parsed
\* name whose raw section the parser has memoized with that data and cache info
WinnersMemoized(k) ==
    \A n \in Won(k) :
        /\ resolver[k][n].section \in Range(plugins[k])
        /\ NameOf(resolver[k][n].section) = n
        /\ Memo(k, resolver[k][n].section) \notin {Unset, None}
        /\ Memo(k, resolver[k][n].section).data = resolver[k][n].parsed_data
        /\ Memo(k, resolver[k][n].section).cache_info = resolver[k][n].cache_info

\* a step leaves every result and the memoized result of its raw section as
\* they are, and leaves absent what is memoized absent
WinnersKept ==
    \A k \in Pairs :
        (~debug /\ ~vetoed'[k]) =>
            /\ \A n \in Won(k) :
                  /\ resolver'[k][n] = resolver[k][n]
                  /\ parser'[k].memoized_results[resolver[k][n].section]
                        = Memo(k, resolver[k][n].section)
            /\ \A s \in Sections :
                  Memo(k, s) = None => parser'[k].memoized_results[s] = None

\* C19: with debug mode off and disable called by resolve only, every result
\* memoized in a resolver names a plugin whose raw section the parser has
\* memoized with the same data and cache info; no later call disables the raw
\* section of a result, and a raw section memoized absent stays absent.
C19_WinnerConsistency ==
    /\ [](\A k \in Pairs : (~debug /\ ~vetoed[k]) => WinnersMemoized(k))
    /\ [][WinnersKept]_vars

\* z has won P, and resolving Q after that found y disabled by z: z is still
\* memoized with the data of the result, x and y are absent
C19_Witness ==
    \E k \in Pairs :
        /\ ~debug /\ ~vetoed[k]
        /\ "P" \in Won(k)
        /\ resolver[k]["P"].section = "z"
        /\ resolver[k]["Q"] = None
        /\ Rows(k, "x") = "ok" /\ Rows(k, "y") = "ok"
        /\ Memo(k, "x") = None /\ Memo(k, "y") = None
        /\ Memo(k, "z") = Parsed(k, "z")

(***************************************************************************)
(* C20: a faulting superseder falls back to the producer it supersedes.    *)
(***************************************************************************)
\* the positions in the calls tr of the calls of parse on producer a
ProducerParsed(tr, a) ==
    {j \in 1..Len(tr) : tr[j].op = "parse" /\ tr[j].role = "producer" /\ tr[j].name = a}

\* no plugin superseding a among plugs, other than q, can parse on host key k
NoOtherSuperseder(k, plugs, a, q) ==
    \A o \in Range(init_superseders(plugs, a)) \ {q} :
        Rows(k, o) # "ok" \/ Memo(k, o) = None

\* the call with outcome r on the pair of host key k invoked the parse function
\* of q
Invoked(k, q, r) == r.st.calls[q] > parser[k].calls[q]

\* a call of resolve with outcome r that comes to producer a, superseded by the
\* faulting q: q was parsed before a and found absent, nothing was disabled
\* for q, one parsing error of q is recorded, and a wins if its parse returns
\* a result, which it does when its parse function does and nothing else
\* supersedes it
FallsBack(k, a, q, r) ==
    /\ ~r.raised
    /\ FirstProducer(plugins[k], a) => ProducerParsed(r.trace, a) # {}
    /\ \A j \in ProducerParsed(r.trace, a) :
          /\ \E i \in 1..(j - 1) :
                r.trace[i] = [op |-> "parse", role |-> "superseder", name |-> q,
                              found |-> FALSE]
          /\ \A i \in 1..Len(r.trace) :
                ~(r.trace[i].op = "disable" /\ r.trace[i].name = q)
          /\ Count(r.st.parsing_errors, q) = 1
          /\ r.st.memoized_results[q] = None
          /\ r.trace[j].found =>
                /\ r.ret = ResolvedResult(a, r.st.memoized_results[a])
                /\ r.memo[NameOf(a)] = r.ret
          /\ (Rows(k, a) = "ok" /\ Memo(k, a) # None
              /\ NoOtherSuperseder(k, plugins[k], a, q)) =>
                /\ r.trace[j].found
                /\ r.ret = ResolvedResult(a, Parsed(k, a))

\* C20: with debug mode off, when the parse function of a superseder whose raw
\* section is present faults, resolve disables nothing of what that superseder
\* supersedes, parses the superseded producer, which wins if it parses, and
\* records exactly one parsing error for the superseder.
C20_FaultingSupersederFallsBack ==
    \A k \in Pairs : \A a \in Range(plugins[k]) :
        \A q \in Range(init_superseders(plugins[k], a)) :
            (~debug /\ Rows(k, q) = "bad"
             /\ Invoked(k, q, ResolveNow(k, NameOf(a)))) =>
                FallsBack(k, a, q, ResolveNow(k, NameOf(a)))

\* the parse function of a superseder has faulted once in a call of resolve,
\* and the producer it supersedes has won that resolution
C20_Witness ==
    \E k \in Pairs : \E a \in Range(plugins[k]) :
        \E q \in Range(init_superseders(plugins[k], a)) :
            /\ ~debug /\ ~vetoed[k] /\ direct = 0
            /\ Rows(k, q) = "bad"
            /\ Count(parser[k].parsing_errors, q) = 1
            /\ Memo(k, q) = None
            /\ resolver[k][NameOf(a)] = ResolvedResult(a, Parsed(k, a))
            /\ Memo(k, a) = Parsed(k, a)

====
